---- MODULE Spec2Model ----
(***************************************************************************)
(* A model of the Google Forms auto-responder: the Flask routes of         *)
(* web_app_vercel.py (one thread per request), WebBotManager and its       *)
(* run_worker thread, and the GoogleFormBot submission loop of form_bot.py.*)
(* Request handlers and worker threads interleave between any two          *)
(* accesses to shared objects (the interpreter may switch threads between  *)
(* bytecodes), so every handler is a small process with a position.  A     *)
(* step holds the statements up to the next access to a shared object that *)
(* another thread's step can change the outcome of: the check-then-act     *)
(* windows of start_bot, stop_bot, clear_session and run_worker are all    *)
(* kept; a dictionary lookup that directly follows the membership test is  *)
(* one step with it.                                                       *)
(* The browser is the environment: each browser operation either returns   *)
(* or raises.  Time stamps, delays, headless and speed_mode only affect    *)
(* pacing and are left out.                                                *)
(***************************************************************************)
EXTENDS Integers, Sequences, FiniteSets, TLC

\* ------------------------------------------------------------ bounds
MaxReq == 3        \* requests the client sends in one behaviour
MaxHandlers == 2   \* request-handler threads that can be in flight at once
MaxCount == 2      \* largest accepted "count" the client asks for
MaxBlocks == 1     \* question blocks (div[role='listitem']) on the form
MaxWorkers == 2    \* worker threads created in one behaviour
MaxRadios == 5     \* options of one radio question (choice specification)
MaxExtra == 2      \* log calls of the worker beyond LogLimit (log specification)
MaxStops == 1      \* log calls of stop_bot (log specification)

\* ------------------------------------------------- program constants
LogLimit == 100    \* "Keep only last 100 logs"
MinCount == 1
CountLimit == 1000

Handlers == 1..MaxHandlers
Sids == 1..MaxReq       \* session ids (uuid4 values, each fresh)
Mgrs == 1..MaxReq       \* WebBotManager objects
Workers == 1..MaxWorkers    \* run_worker threads; thread w creates bot w and driver w
CountInputs == (0..MaxCount) \cup {CountLimit + 1}

VARIABLES
  VERCEL,            \* os.environ.get('VERCEL') is set
  cookie,            \* the client's session['session_id'] (0: none)
  nextSid,           \* uuid4 values handed out so far
  active_bots,       \* session id -> manager (0: not in the dict)
  nMgr,              \* WebBotManager objects constructed so far
  bot,               \* manager.bot (0: None)
  worker,            \* manager.worker (0: None)
  logs,              \* manager.logs
  status,            \* manager.status
  submitted_count,   \* manager.submitted_count
  target_count,      \* manager.target_count
  stop_requested,    \* bot._stop_requested
  driver,            \* bot._driver (0: None, else the driver object)
  drv,               \* each browser driver: "none", "live" or "quit"
  th,                \* the run_worker threads
  hd,                \* the request-handler threads
  reqs,              \* requests received so far
  out,               \* the response sent by the last step, if it sent one
  lg,                \* the threads inside WebBotManager.log (log specification)
  hist,              \* lines logged since the last accepted start (log specification)
  pick               \* one call of _choose_radio_like_human (choice specification)

webVars == <<cookie, nextSid, active_bots, nMgr>>
mgrVars == <<bot, worker, logs, status, submitted_count, target_count>>
botVars == <<stop_requested, driver, drv>>
auxVars == <<lg, hist, pick>>
env == <<VERCEL, auxVars>>
vars == <<VERCEL, webVars, mgrVars, botVars, th, hd, reqs, out, auxVars>>

\* ------------------------------------------------------------ helpers
Line(msg, a, b) == [msg |-> msg, a |-> a, b |-> b]

LogAppend(l, line) == Append(l, line)

LogTrim(l) == IF Len(l) > LogLimit THEN Tail(l) ELSE l

\* WebBotManager.log, run without interruption
Log(l, line) == LogTrim(LogAppend(l, line))

IsAlive(w) == th[w].state = "alive"

\* the driver a bot holds answers commands
Usable(b) == driver[b] # 0 /\ drv[driver[b]] = "live"

LogThreads == {"worker", "stop"}

NoPick == [n |-> 0, r |-> 0, k |-> 0, choice |-> -1]

IdleThread ==
  [state |-> "none", mgr |-> 0, count |-> 0, pc |-> "none", b |-> 0,
   i |-> 0, submitted |-> 0, blk |-> 0, clicks |-> 0,
   stopped |-> FALSE, late |-> 0]

\* A response: its kind, the session id it names, and for /api/status the
\* manager's fields (the log by its length)
Resp(code, s) ==
  [code |-> code, sid |-> s, status |-> "", logs |-> 0,
   submitted_count |-> 0, target_count |-> 0]

NoResp == Resp("none", 0)

IdleHandler ==
  [pc |-> "idle", op |-> "none", sid |-> 0, m |-> 0, count |-> 0, fresh |-> FALSE,
   b |-> 0]

Init ==
  /\ VERCEL \in BOOLEAN
  /\ cookie = 0
  /\ nextSid = 0
  /\ active_bots = [s \in Sids |-> 0]
  /\ nMgr = 0
  /\ bot = [m \in Mgrs |-> 0]
  /\ worker = [m \in Mgrs |-> 0]
  /\ logs = [m \in Mgrs |-> <<>>]
  /\ status = [m \in Mgrs |-> "idle"]
  /\ submitted_count = [m \in Mgrs |-> 0]
  /\ target_count = [m \in Mgrs |-> 0]
  /\ stop_requested = [b \in Workers |-> FALSE]
  /\ driver = [b \in Workers |-> 0]
  /\ drv = [d \in Workers |-> "none"]
  /\ th = [w \in Workers |-> IdleThread]
  /\ hd = [k \in Handlers |-> IdleHandler]
  /\ reqs = 0
  /\ out = NoResp
  /\ lg = [t \in LogThreads |-> [pc |-> "idle", calls |-> 0]]
  /\ hist = 0
  /\ pick = NoPick

\* ------------------------------------------------ request handlers
\* A response leaves the handler thread; the client's cookie follows the
\* response when the handler changed the Flask session.
Respond(k, r, newCookie) ==
  /\ hd' = [hd EXCEPT ![k] = IdleHandler]
  /\ cookie' = newCookie
  /\ out' = r

\* a step that sends no response
Quiet == out' = NoResp

\* A request arrives and is given to the first free handler thread.
Arrive(k) ==
  /\ hd[k].pc = "idle"
  /\ \A j \in Handlers : j < k => hd[j].pc # "idle"
  /\ reqs < MaxReq
  /\ reqs' = reqs + 1

\* lines 89-105: the validation of the request; u: the stripped URL is not
\* empty, c: int(count)
Validate(u, c) ==
  IF ~u THEN "400 url"
  ELSE IF c < MinCount \/ c > CountLimit THEN "400 count"
  ELSE IF VERCEL THEN "400 vercel"
  ELSE "ok"

\* the cookie a response of /api/start leaves the client with
Back(k) == IF hd[k].fresh THEN hd[k].sid ELSE cookie

\* POST /api/start, lines 75-105: the session id, the manager of the session
\* (a new one when the session has none), the validation
StartRoute(k) ==
  /\ Arrive(k)
  /\ Cardinality({w \in Workers : th[w].state # "none"})
       + Cardinality({j \in Handlers : hd[j].op = "start"}) < MaxWorkers
  /\ \E u \in BOOLEAN, c \in CountInputs :
       LET new == cookie = 0
           s == IF new THEN nextSid + 1 ELSE cookie
           create == active_bots[s] = 0
           m == IF create THEN nMgr + 1 ELSE active_bots[s]
           v == Validate(u, c)
       IN /\ nextSid' = IF new THEN nextSid + 1 ELSE nextSid
          /\ nMgr' = IF create THEN nMgr + 1 ELSE nMgr
          /\ active_bots' = [active_bots EXCEPT ![s] = m]
          /\ IF v = "ok"
             THEN /\ hd' = [hd EXCEPT ![k] =
                              [pc |-> "sb_alive", op |-> "start", sid |-> s,
                               m |-> m, count |-> c, fresh |-> new, b |-> 0]]
                  /\ UNCHANGED cookie /\ Quiet
             ELSE /\ hd' = hd
                  /\ cookie' = s
                  /\ out' = Resp(v, s)
  /\ UNCHANGED <<env, mgrVars, botVars, th>>

\* WebBotManager.start_bot, lines 30-31
SbAlive(k) ==
  /\ hd[k].pc = "sb_alive"
  /\ IF worker[hd[k].m] # 0 /\ IsAlive(worker[hd[k].m])
     THEN Respond(k, Resp("400 already running", hd[k].sid), Back(k))
     ELSE /\ hd' = [hd EXCEPT ![k].pc = "sb_running"]
          /\ UNCHANGED cookie /\ Quiet
  /\ UNCHANGED <<env, nextSid, active_bots, nMgr, mgrVars, botVars, th, reqs>>

\* lines 33-34
SbRunning(k) ==
  /\ hd[k].pc = "sb_running"
  /\ status' = [status EXCEPT ![hd[k].m] = "running"]
  /\ target_count' = [target_count EXCEPT ![hd[k].m] = hd[k].count]
  /\ hd' = [hd EXCEPT ![k].pc = "sb_reset"]
  /\ Quiet
  /\ UNCHANGED <<env, webVars, bot, worker, logs, submitted_count,
                 botVars, th, reqs>>

\* lines 35-36
SbReset(k) ==
  /\ hd[k].pc = "sb_reset"
  /\ submitted_count' = [submitted_count EXCEPT ![hd[k].m] = 0]
  /\ logs' = [logs EXCEPT ![hd[k].m] = <<>>]
  /\ hd' = [hd EXCEPT ![k].pc = "sb_thread"]
  /\ Quiet
  /\ UNCHANGED <<env, webVars, bot, worker, status, target_count,
                 botVars, th, reqs>>

FreeThread == CHOOSE w \in Workers :
                /\ th[w].state = "none"
                /\ \A v \in Workers : v < w => th[v].state # "none"

\* line 59: self.worker = threading.Thread(target=run_worker, daemon=True)
SbThread(k) ==
  /\ hd[k].pc = "sb_thread"
  /\ LET w == FreeThread
     IN /\ th' = [th EXCEPT ![w] = [IdleThread EXCEPT !.state = "new",
                                     !.mgr = hd[k].m, !.count = hd[k].count,
                                     !.pc = "w_new"]]
        /\ worker' = [worker EXCEPT ![hd[k].m] = w]
  /\ hd' = [hd EXCEPT ![k].pc = "sb_go"]
  /\ Quiet
  /\ UNCHANGED <<env, webVars, bot, logs, status, submitted_count,
                 target_count, botVars, reqs>>

\* lines 60-61 and 110-113: self.worker.start(), return True, the response.
\* self.worker is read again here: a thread that was already started raises
\* RuntimeError, which Flask answers with a 500.
SbGo(k) ==
  /\ hd[k].pc = "sb_go"
  /\ LET w == worker[hd[k].m]
     IN IF th[w].state = "new"
        THEN /\ th' = [th EXCEPT ![w].state = "alive"]
             /\ Respond(k, Resp("started", hd[k].sid), Back(k))
        ELSE /\ Respond(k, Resp("500", hd[k].sid), Back(k))
             /\ UNCHANGED th
  /\ UNCHANGED <<env, nextSid, active_bots, nMgr, mgrVars, botVars, reqs>>

\* The workers of manager m that are running when /api/stop answers
\* 'Stop requested' have been asked to stop.
MarkStopped(m) ==
  [w \in Workers |-> IF th[w].mgr = m /\ th[w].state = "alive"
                     THEN [th[w] EXCEPT !.stopped = TRUE] ELSE th[w]]

\* POST /api/stop, lines 117-125, and stop_bot's lines 64-65: with no bot the
\* route still answers 'Stop requested'
StopRoute(k) ==
  /\ Arrive(k)
  /\ LET m == IF cookie = 0 THEN 0 ELSE active_bots[cookie]
     IN IF cookie = 0
        THEN /\ hd' = hd /\ UNCHANGED <<cookie, logs, th>>
             /\ out' = Resp("400 no session", 0)
        ELSE IF m = 0
        THEN /\ hd' = hd /\ UNCHANGED <<cookie, logs, th>>
             /\ out' = Resp("400 no bot", cookie)
        ELSE IF bot[m] = 0
        THEN /\ hd' = hd /\ UNCHANGED <<cookie, logs>>
             /\ th' = MarkStopped(m)
             /\ out' = Resp("stop requested", cookie)
        ELSE /\ hd' = [hd EXCEPT ![k] = [IdleHandler EXCEPT !.pc = "tb_stop",
                                           !.op = "stop", !.sid = cookie, !.m = m]]
             /\ logs' = [logs EXCEPT ![m] = Log(@, Line("Stop requested...", 0, 0))]
             /\ UNCHANGED <<cookie, th>> /\ Quiet
  /\ UNCHANGED <<env, nextSid, active_bots, nMgr, bot, worker, status,
                 submitted_count, target_count, botVars>>

\* GoogleFormBot.stop, lines 68-69
BotStop(b) == [stop_requested EXCEPT ![b] = TRUE]

\* line 66: self.bot.stop(), on the bot the manager holds now
TbStop(k) ==
  /\ hd[k].pc = "tb_stop"
  /\ stop_requested' = BotStop(bot[hd[k].m])
  /\ hd' = [hd EXCEPT ![k].pc = "tb_status"]
  /\ Quiet
  /\ UNCHANGED <<env, webVars, mgrVars, driver, drv, th, reqs>>

\* line 67, then line 123
TbStatus(k) ==
  /\ hd[k].pc = "tb_status"
  /\ status' = [status EXCEPT ![hd[k].m] = "stopping"]
  /\ Respond(k, Resp("stop requested", hd[k].sid), cookie)
  /\ th' = MarkStopped(hd[k].m)
  /\ UNCHANGED <<env, nextSid, active_bots, nMgr, bot, worker, logs,
                 submitted_count, target_count, botVars, reqs>>

\* GET /api/status, lines 127-143: the manager's fields as the response
StatusRoute(k) ==
  /\ Arrive(k)
  /\ LET m == IF cookie = 0 THEN 0 ELSE active_bots[cookie]
     IN out' = IF cookie = 0 THEN Resp("400 no session", 0)
               ELSE IF m = 0 THEN Resp("400 no bot", cookie)
               ELSE [code |-> "status", sid |-> cookie,
                     status |-> status[m], logs |-> Len(logs[m]),
                     submitted_count |-> submitted_count[m],
                     target_count |-> target_count[m]]
  /\ UNCHANGED <<env, webVars, mgrVars, botVars, th, hd>>

\* GoogleFormBot.quit, lines 73-76: self._driver.quit() inside try/except;
\* with _driver already None the AttributeError is swallowed
QuitDrv(b) == IF driver[b] # 0 THEN [drv EXCEPT ![driver[b]] = "quit"] ELSE drv

\* GoogleFormBot.quit, line 77: self._driver = None
QuitDriver(b) == [driver EXCEPT ![b] = 0]

\* GET /api/clear, lines 145-151
ClearRoute(k) ==
  /\ Arrive(k)
  /\ IF cookie = 0 \/ active_bots[cookie] = 0
     THEN /\ hd' = hd
          /\ cookie' = 0
          /\ out' = Resp("cleared", cookie)
     ELSE /\ hd' = [hd EXCEPT ![k] =
                      [IdleHandler EXCEPT
                         !.pc = IF bot[active_bots[cookie]] = 0 THEN "c_del" ELSE "c_quit",
                         !.op = "clear", !.sid = cookie, !.m = active_bots[cookie]]]
          /\ UNCHANGED cookie /\ Quiet
  /\ UNCHANGED <<env, nextSid, active_bots, nMgr, mgrVars, botVars, th>>

\* line 152: bot_manager.bot.quit(), on the bot the manager holds now, up to
\* form_bot.py line 72: if self._driver
ClearQuit(k) ==
  /\ hd[k].pc = "c_quit"
  /\ LET b == bot[hd[k].m]
     IN hd' = IF driver[b] = 0 THEN [hd EXCEPT ![k].pc = "c_del"]
              ELSE [hd EXCEPT ![k].pc = "c_dquit", ![k].b = b]
  /\ Quiet
  /\ UNCHANGED <<env, webVars, mgrVars, botVars, th, reqs>>

\* form_bot.py lines 73-76, called from clear_session
ClearDrvQuit(k) ==
  /\ hd[k].pc = "c_dquit"
  /\ drv' = QuitDrv(hd[k].b)
  /\ hd' = [hd EXCEPT ![k].pc = "c_none"]
  /\ Quiet
  /\ UNCHANGED <<env, webVars, mgrVars, stop_requested, driver, th, reqs>>

\* form_bot.py line 77, called from clear_session
ClearNone(k) ==
  /\ hd[k].pc = "c_none"
  /\ driver' = QuitDriver(hd[k].b)
  /\ hd' = [hd EXCEPT ![k].pc = "c_del", ![k].b = 0]
  /\ Quiet
  /\ UNCHANGED <<env, webVars, mgrVars, stop_requested, drv, th, reqs>>

\* lines 153-156: del active_bots[session_id] (a KeyError when another clear
\* removed it: a 500, the session kept); session.clear()
ClearDel(k) ==
  /\ hd[k].pc = "c_del"
  /\ IF active_bots[hd[k].sid] = 0
     THEN /\ Respond(k, Resp("500", hd[k].sid), cookie)
          /\ UNCHANGED active_bots
     ELSE /\ active_bots' = [active_bots EXCEPT ![hd[k].sid] = 0]
          /\ Respond(k, Resp("cleared", hd[k].sid), 0)
  /\ UNCHANGED <<env, nextSid, nMgr, mgrVars, botVars, th, reqs>>

\* ------------------------------------------------ the worker thread
\* the loop without its check of the flag
StopFlagIgnored(b) == FALSE

\* form_bot.py lines 229 and 133: if self._stop_requested
StopFlag(b) == stop_requested[b]

\* the except branch leaving the status as it was
StatusAfterErrorSlip == "running"

\* line 54: self.status = "error"
StatusAfterError == "error"

Running(w, pc) == th[w].state = "alive" /\ th[w].pc = pc

\* lines 40-46: self.bot = GoogleFormBot(config, logger=self.log), then
\* "Starting bot..."
WNew(w) ==
  /\ Running(w, "w_new")
  /\ bot' = [bot EXCEPT ![th[w].mgr] = w]
  /\ logs' = [logs EXCEPT ![th[w].mgr] = Log(@, Line("Starting bot...", 0, 0))]
  /\ th' = [th EXCEPT ![w].pc = "w_start"]
  /\ Quiet
  /\ UNCHANGED <<env, webVars, worker, status, submitted_count,
                 target_count, botVars, hd, reqs>>

\* line 47: self.bot.start() (form_bot.py lines 42-66) on the bot the manager
\* holds now.  webdriver.Chrome may raise; so may set_page_load_timeout, with
\* the driver already assigned.
WStart(w) ==
  /\ Running(w, "w_start")
  /\ LET b == bot[th[w].mgr]
     IN \/ /\ th' = [th EXCEPT ![w].pc = "w_elog"]
           /\ UNCHANGED <<driver, drv>>
        \/ /\ driver' = [driver EXCEPT ![b] = w]
           /\ drv' = [drv EXCEPT ![w] = "live"]
           /\ \E ok \in BOOLEAN :
                th' = [th EXCEPT ![w].pc = IF ok THEN "w_sub" ELSE "w_elog"]
  /\ Quiet
  /\ UNCHANGED <<env, webVars, mgrVars, stop_requested, hd, reqs>>

\* line 48 and form_bot.py lines 226-227: submit_n_responses on the bot the
\* manager holds now; assert self._driver is not None
WSub(w) ==
  /\ Running(w, "w_sub")
  /\ LET b == bot[th[w].mgr]
     IN th' = [th EXCEPT ![w].b = IF driver[b] = 0 THEN 0 ELSE b,
                         ![w].pc = IF driver[b] = 0 THEN "w_elog" ELSE "l_check"]
  /\ Quiet
  /\ UNCHANGED <<env, webVars, mgrVars, botVars, hd, reqs>>

\* form_bot.py lines 228-238: the loop head, the flag, "Starting response",
\* then open_form (lines 92-103) for the first response, click_submit_another
\* or a reload for the others.  Without a usable driver the page operation
\* raises; with one the browser decides.
LCheck(w) ==
  /\ Running(w, "l_check")
  /\ LET b == th[w].b
         m == th[w].mgr
         l1 == Log(logs[m], Line("Starting response", th[w].i + 1, th[w].count))
         l2 == IF th[w].i = 0 /\ driver[b] # 0
               THEN Log(l1, Line("Opening form...", 0, 0)) ELSE l1
     IN IF th[w].i >= th[w].count \/ StopFlag(b)
        THEN /\ th' = [th EXCEPT ![w].pc = "w_ret"]
             /\ UNCHANGED logs
        ELSE /\ logs' = [logs EXCEPT ![m] = l2]
             /\ \E ok \in BOOLEAN :
                  th' = [th EXCEPT ![w].pc = IF ok /\ Usable(b) THEN "l_answer"
                                             ELSE "w_elog"]
  /\ Quiet
  /\ UNCHANGED <<env, webVars, bot, worker, status, submitted_count,
                 target_count, botVars, hd, reqs>>

\* form_bot.py lines 241 and 131: the question blocks of the page
LAnswer(w) ==
  /\ Running(w, "l_answer")
  /\ \/ th' = [th EXCEPT ![w].pc = "w_elog"]
     \/ /\ Usable(th[w].b)
        /\ \E nb \in 0..MaxBlocks :
             th' = [th EXCEPT ![w].blk = nb,
                              ![w].pc = IF nb = 0 THEN "l_click" ELSE "l_block"]
  /\ Quiet
  /\ UNCHANGED <<env, webVars, mgrVars, botVars, hd, reqs>>

\* form_bot.py lines 132-194: the check of the flag, then one question block
LBlock(w) ==
  /\ Running(w, "l_block")
  /\ IF StopFlag(th[w].b)
     THEN th' = [th EXCEPT ![w].blk = 0, ![w].pc = "l_click"]
     ELSE \E ok \in BOOLEAN :
            LET fine == ok /\ Usable(th[w].b)
            IN th' = [th EXCEPT ![w].blk = IF fine THEN @ - 1 ELSE 0,
                                ![w].pc = IF ~fine THEN "w_elog"
                                          ELSE IF th[w].blk = 1 THEN "l_click"
                                          ELSE "l_block"]
  /\ Quiet
  /\ UNCHANGED <<env, webVars, mgrVars, botVars, hd, reqs>>

\* form_bot.py lines 242-243 and 105-116: click_submit; "Submit button not
\* found" and a dead driver raise
LClick(w) ==
  /\ Running(w, "l_click")
  /\ \E ok \in BOOLEAN :
       IF ok /\ Usable(th[w].b)
       THEN th' = [th EXCEPT ![w].clicks = @ + 1,
                             ![w].late = IF stop_requested[th[w].b] THEN @ + 1 ELSE @,
                             ![w].pc = "l_count"]
       ELSE th' = [th EXCEPT ![w].pc = "w_elog"]
  /\ Quiet
  /\ UNCHANGED <<env, webVars, mgrVars, botVars, hd, reqs>>

\* form_bot.py lines 246-250
LCount(w) ==
  /\ Running(w, "l_count")
  /\ logs' = [logs EXCEPT ![th[w].mgr] =
                Log(@, Line("Submitted", th[w].submitted + 1, th[w].count))]
  /\ th' = [th EXCEPT ![w].submitted = @ + 1, ![w].i = @ + 1, ![w].pc = "l_check"]
  /\ Quiet
  /\ UNCHANGED <<env, webVars, bot, worker, status, submitted_count,
                 target_count, botVars, hd, reqs>>

\* form_bot.py line 252 and lines 49-50: self.submitted_count = submitted,
\* then "Completed! ..."
WRet(w) ==
  /\ Running(w, "w_ret")
  /\ submitted_count' = [submitted_count EXCEPT ![th[w].mgr] = th[w].submitted]
  /\ logs' = [logs EXCEPT ![th[w].mgr] = Log(@, Line("Completed!", th[w].submitted, 0))]
  /\ th' = [th EXCEPT ![w].pc = "w_cstat"]
  /\ Quiet
  /\ UNCHANGED <<env, webVars, bot, worker, status, target_count,
                 botVars, hd, reqs>>

\* line 51
WCompleted(w) ==
  /\ Running(w, "w_cstat")
  /\ status' = [status EXCEPT ![th[w].mgr] = "completed"]
  /\ th' = [th EXCEPT ![w].pc = "w_fin"]
  /\ Quiet
  /\ UNCHANGED <<env, webVars, bot, worker, logs, submitted_count,
                 target_count, botVars, hd, reqs>>

\* line 53
WErrorLog(w) ==
  /\ Running(w, "w_elog")
  /\ logs' = [logs EXCEPT ![th[w].mgr] = Log(@, Line("ERROR", 0, 0))]
  /\ th' = [th EXCEPT ![w].pc = "w_estat"]
  /\ Quiet
  /\ UNCHANGED <<env, webVars, bot, worker, status, submitted_count,
                 target_count, botVars, hd, reqs>>

\* line 54
WError(w) ==
  /\ Running(w, "w_estat")
  /\ status' = [status EXCEPT ![th[w].mgr] = StatusAfterError]
  /\ th' = [th EXCEPT ![w].pc = "w_fin"]
  /\ Quiet
  /\ UNCHANGED <<env, webVars, bot, worker, logs, submitted_count,
                 target_count, botVars, hd, reqs>>

\* the thread has run to its end
Ended(t) == [t EXCEPT !.state = "dead", !.pc = "done", !.b = 0, !.i = 0, !.blk = 0]

\* lines 55-57: finally, if self.bot: self.bot.quit() on the bot the manager
\* holds now, up to form_bot.py line 72: if self._driver; with nothing to
\* quit the thread ends
WFinally(w) ==
  /\ Running(w, "w_fin")
  /\ LET b == bot[th[w].mgr]
     IN th' = IF b = 0 \/ driver[b] = 0 THEN [th EXCEPT ![w] = Ended(@)]
              ELSE [th EXCEPT ![w].b = b, ![w].pc = "w_quit"]
  /\ Quiet
  /\ UNCHANGED <<env, webVars, mgrVars, botVars, hd, reqs>>

\* form_bot.py lines 73-76, called from the finally block
WQuit(w) ==
  /\ Running(w, "w_quit")
  /\ drv' = QuitDrv(th[w].b)
  /\ th' = [th EXCEPT ![w].pc = "w_none"]
  /\ Quiet
  /\ UNCHANGED <<env, webVars, mgrVars, stop_requested, driver, hd, reqs>>

\* form_bot.py line 77, called from the finally block; the thread ends
WNone(w) ==
  /\ Running(w, "w_none")
  /\ driver' = QuitDriver(th[w].b)
  /\ th' = [th EXCEPT ![w] = Ended(@)]
  /\ Quiet
  /\ UNCHANGED <<env, webVars, mgrVars, stop_requested, drv, hd, reqs>>

Next ==
  \/ \E k \in Handlers :
       \/ StartRoute(k) \/ SbAlive(k) \/ SbRunning(k) \/ SbReset(k)
       \/ SbThread(k) \/ SbGo(k)
       \/ StopRoute(k) \/ TbStop(k) \/ TbStatus(k)
       \/ StatusRoute(k)
       \/ ClearRoute(k) \/ ClearQuit(k) \/ ClearDrvQuit(k) \/ ClearNone(k)
       \/ ClearDel(k)
  \/ \E w \in Workers :
       \/ WNew(w) \/ WStart(w) \/ WSub(w)
       \/ LCheck(w) \/ LAnswer(w) \/ LBlock(w) \/ LClick(w) \/ LCount(w)
       \/ WRet(w) \/ WCompleted(w) \/ WErrorLog(w) \/ WError(w)
       \/ WFinally(w) \/ WQuit(w) \/ WNone(w)

Spec == Init /\ [][Next]_vars
\* ------------------------------------- the log, one statement at a time
\* The callers of WebBotManager.log are the worker thread (lines 46, 50, 53
\* and the bot's logger) and stop_bot (line 65), on different threads; a
\* line is identified by its number since the last accepted start.
LogCalls(t) == IF t = "worker" THEN LogLimit + MaxExtra ELSE MaxStops

\* lines 24-25: self.logs.append(...)
LogCall(t) ==
  /\ lg[t].pc = "idle"
  /\ lg[t].calls < LogCalls(t)
  /\ logs' = [logs EXCEPT ![1] = LogAppend(@, Line(t, hist + 1, 0))]
  /\ hist' = hist + 1
  /\ lg' = [lg EXCEPT ![t].pc = "trim", ![t].calls = @ + 1]
  /\ Quiet
  /\ UNCHANGED <<VERCEL, pick, webVars, bot, worker, status, submitted_count,
                 target_count, botVars, th, hd, reqs>>

\* lines 26-27: if len(self.logs) > 100: self.logs.pop(0)
LogTrimStep(t) ==
  /\ lg[t].pc = "trim"
  /\ logs' = [logs EXCEPT ![1] = LogTrim(@)]
  /\ lg' = [lg EXCEPT ![t].pc = "idle"]
  /\ Quiet
  /\ UNCHANGED <<VERCEL, pick, hist, webVars, bot, worker, status,
                 submitted_count, target_count, botVars, th, hd, reqs>>

\* lines 136-143: a status read of the manager
LogStatus ==
  /\ out' = [code |-> "status", sid |-> 0, status |-> status[1],
             logs |-> Len(logs[1]), submitted_count |-> submitted_count[1],
             target_count |-> target_count[1]]
  /\ UNCHANGED <<env, webVars, mgrVars, botVars, th, hd, reqs>>

InitLog == Init /\ VERCEL = FALSE

NextLog ==
  \/ \E t \in LogThreads : LogCall(t) \/ LogTrimStep(t)
  \/ LogStatus

SpecLog == InitLog /\ [][NextLog]_vars

\* ------------------------------------- _choose_radio_like_human
\* Weights are multiples of 1/2 and the draw is a real in [0, total]: both
\* are counted in quarters, so that draws on and between the cumulative
\* weights are covered.
Abs(x) == IF x < 0 THEN -x ELSE x

\* form_bot.py lines 202-205: w = n - abs(i - mid), mid = (n - 1) / 2.0
Weight(n, i) == 4 * n - 2 * Abs(2 * i - (n - 1))

RECURSIVE SumTo(_, _)
\* the weights of the options 0..i added up
SumTo(n, i) == IF i < 0 THEN 0 ELSE Weight(n, i) + SumTo(n, i - 1)

\* line 207: total = sum(weights)
Total(n) == SumTo(n, n - 1)

\* the comparison made strict
HitStrict(upto, w, r) == upto + w > r

\* line 211: if upto + w >= r
Hit(upto, w, r) == upto + w >= r

RECURSIVE Walk(_, _, _, _)
\* lines 209-214: the first option whose cumulative weight reaches r, else
\* the last option
Walk(n, r, i, upto) ==
  IF i = n THEN n - 1
  ELSE IF Hit(upto, Weight(n, i), r) THEN i
  ELSE Walk(n, r, i + 1, upto + Weight(n, i))

\* lines 198-214: the index returned for n options, the draw r of
\* random.uniform and the index k drawn by random.choice
ChooseRadio(n, r, k) == IF n <= 2 THEN k ELSE Walk(n, r, 0, 0)

Picks ==
  UNION {{[n |-> n, r |-> r, k |-> k, choice |-> -1] :
            r \in (IF n <= 2 THEN {0} ELSE 0..Total(n)),
            k \in (IF n <= 2 THEN 0..(n - 1) ELSE {0})} : n \in 1..MaxRadios}

InitChoose ==
  /\ VERCEL = FALSE
  /\ cookie = 0 /\ nextSid = 0 /\ nMgr = 0 /\ reqs = 0 /\ hist = 0
  /\ active_bots = [s \in Sids |-> 0]
  /\ bot = [m \in Mgrs |-> 0]
  /\ worker = [m \in Mgrs |-> 0]
  /\ logs = [m \in Mgrs |-> <<>>]
  /\ status = [m \in Mgrs |-> "idle"]
  /\ submitted_count = [m \in Mgrs |-> 0]
  /\ target_count = [m \in Mgrs |-> 0]
  /\ stop_requested = [b \in Workers |-> FALSE]
  /\ driver = [b \in Workers |-> 0]
  /\ drv = [d \in Workers |-> "none"]
  /\ th = [w \in Workers |-> IdleThread]
  /\ hd = [k \in Handlers |-> IdleHandler]
  /\ out = NoResp
  /\ lg = [t \in LogThreads |-> [pc |-> "idle", calls |-> 0]]
  /\ pick \in Picks

\* lines 144 and 154: choice = self._choose_radio_like_human(selectable)
Choose ==
  /\ pick.choice = -1
  /\ pick' = [pick EXCEPT !.choice = ChooseRadio(pick.n, pick.r, pick.k)]
  /\ UNCHANGED <<VERCEL, lg, hist, webVars, mgrVars, botVars, th, hd, reqs, out>>

NextChoose == Choose

SpecChoose == InitChoose /\ [][NextChoose]_vars

\* ================================================================ claims

Statuses == {"idle", "running", "completed", "error"}

\* C1: a session's status is always one of idle, running, completed, error;
\* from idle it only goes to running, from running only to completed or error.
C1_StatusTransitions ==
  /\ \A m \in Mgrs : status[m] \in Statuses
  /\ [][\A m \in Mgrs :
          /\ status'[m] \in Statuses
          /\ status[m] = "idle" => status'[m] \in {"idle", "running"}
          /\ status[m] = "running" => status'[m] \in {"running", "completed", "error"}]_vars

\* C2: once /api/stop has answered 'Stop requested' for a session whose worker
\* is running, that run performs no further submit click.
C2_StopHalts ==
  [][\A w \in Workers : th[w].stopped => th'[w].clicks = th[w].clicks]_vars

\* C3: 0 <= submitted_count <= target_count in every state, and a run never
\* clicks submit more often than the count it was started with.
C3_CountersBounded ==
  /\ \A m \in Mgrs : 0 <= submitted_count[m] /\ submitted_count[m] <= target_count[m]
  /\ \A w \in Workers : th[w].clicks <= th[w].count

\* a step of an accepted start_bot that resets the counters of manager m
ResetStep(m) ==
  \E k \in Handlers : /\ hd[k].m = m
                      /\ hd[k].pc \in {"sb_running", "sb_reset"}
                      /\ hd'[k].pc # hd[k].pc

\* C4: submitted_count and target_count never decrease except in the reset of
\* an accepted start_bot.
C4_CountersMonotone ==
  [][\A m \in Mgrs :
       (submitted_count'[m] < submitted_count[m] \/ target_count'[m] < target_count[m])
         => ResetStep(m)]_vars

\* C5: a session never has two live workers, and a start_bot that finds the
\* worker alive answers with an error and starts nothing.
C5_OneWorker ==
  [][/\ \A m \in Mgrs : Cardinality({w \in Workers : th'[w].mgr = m
                                       /\ th'[w].state = "alive"}) <= 1
     /\ \A k \in Handlers :
          (/\ hd[k].pc = "sb_alive" /\ hd'[k] # hd[k]
           /\ worker[hd[k].m] # 0 /\ IsAlive(worker[hd[k].m]))
            => out'.code = "400 already running" /\ th' = th]_vars

StartErrors == {"400 url", "400 count", "400 vercel", "400 already running"}

\* C7: a start request that is valid and finds no live worker returns the
\* session id with the session left running, target_count = count,
\* submitted_count = 0, the log cleared and one worker started; a rejected
\* one starts no worker.
C7_StartContract ==
  [][\A k \in Handlers :
       /\ (hd[k].pc = "sb_go" /\ hd'[k].pc = "idle") =>
            /\ out'.code = "started" /\ out'.sid = hd[k].sid
            /\ status'[hd[k].m] = "running"
            /\ target_count'[hd[k].m] = hd[k].count
            /\ submitted_count'[hd[k].m] = 0
            /\ logs'[hd[k].m] = <<>>
            /\ Cardinality({w \in Workers : th'[w].state = "alive"
                                            /\ th[w].state # "alive"}) = 1
       /\ out'.code \in StartErrors => th' = th /\ worker' = worker]_vars

\* C8: a status read never sees more than 100 log lines, and the lines are
\* the most recently logged ones, in the order they were logged.
C8_RingBuffer ==
  /\ out.code = "status" => out.logs <= LogLimit
  /\ Len(logs[1]) <= LogLimit
  /\ \A i \in 1..Len(logs[1]) : logs[1][i].a = hist - Len(logs[1]) + i

\* twice the distance of option i from the middle of n options
Dist(n, i) == Abs(2 * i - (n - 1))

\* C9: for three or more options the weights are symmetric about the middle
\* and strictly decrease with the distance from it, every draw r in
\* [0, total] returns the first option whose cumulative weight is >= r (a
\* member of the list), and the draws that return an option measure its
\* weight; for one or two options the uniformly drawn index is returned.
C9_WeightedChoice ==
  LET n == pick.n
      opts == 0..(n - 1)
  IN /\ n >= 3 =>
          /\ \A i \in opts : Weight(n, i) = Weight(n, n - 1 - i)
          /\ \A i, j \in opts : Dist(n, i) < Dist(n, j) => Weight(n, i) > Weight(n, j)
          /\ \A i \in opts : Weight(n, i) = 4 * n - 2 * Dist(n, i)
          /\ \A i \in opts :
               Cardinality({r \in 1..Total(n) : ChooseRadio(n, r, 0) = i}) = Weight(n, i)
     /\ pick.choice # -1 =>
          /\ pick.choice \in opts
          /\ n >= 3 => /\ SumTo(n, pick.choice) >= pick.r
                       /\ \A j \in opts : j < pick.choice => SumTo(n, j) < pick.r
          /\ n <= 2 => pick.choice = pick.k

\* C9 witness: a draw strictly inside the weight of the middle option of five
\* returns the middle option.
C9_Witness ==
  /\ pick.n = 5 /\ pick.choice = 2
  /\ pick.r > SumTo(5, 1) /\ pick.r < SumTo(5, 2)

\* C10: _stop_requested is never reset; with the flag set the loop starts no
\* new response; a run clicks submit at most once after the flag was set;
\* submit_n_responses returns the number of submit clicks it performed.
C10_CooperativeStop ==
  [][/\ \A b \in Workers : stop_requested[b] => stop_requested'[b]
     /\ \A w \in Workers :
          /\ (th[w].pc = "l_check" /\ stop_requested[th[w].b] /\ th'[w].pc # "l_check") =>
               /\ th'[w].pc = "w_ret"
               /\ logs' = logs
          /\ th'[w].late <= 1
          /\ th'[w].pc = "w_ret" => th'[w].submitted = th'[w].clicks]_vars

\* C10 witness: a run of two was stopped during its first response, clicked
\* submit once more and returned 1.
C10_Witness ==
  \E w \in Workers :
    /\ th[w].count = 2 /\ th[w].late = 1 /\ th[w].clicks = 1
    /\ th[w].pc = "w_cstat" /\ submitted_count[th[w].mgr] = 1

\* an accepted start_bot of manager m has passed the check of line 30-31 and
\* has changed the manager but not yet started its thread
Starting(m) ==
  \E k \in Handlers : hd[k].m = m /\ hd[k].pc \in {"sb_reset", "sb_thread", "sb_go"}

\* the worker of manager m has terminated
Terminated(m) == worker[m] # 0 /\ th[worker[m]].state = "dead"

\* C11: once the worker of a session has terminated, the status is completed
\* or error (never running or stopping) until the next accepted start,
\* wherever the stop_bot calls fall.
C11_TerminalStatus ==
  \A m \in Mgrs : (Terminated(m) /\ ~Starting(m)) => status[m] \in {"completed", "error"}

\* a step of an accepted start_bot that executes line 35 on manager m
StartWrite(m) ==
  \E k \in Handlers : hd[k].m = m /\ hd[k].pc = "sb_reset" /\ hd'[k].pc = "sb_thread"

\* a step of a worker of manager m that executes line 49 with the value
\* submit_n_responses returned
ReturnWrite(m) ==
  \E w \in Workers : /\ th[w].mgr = m /\ th[w].pc = "w_ret" /\ th'[w].pc = "w_cstat"
                     /\ submitted_count'[m] = th[w].submitted

\* C12: whenever a session's status is completed, submitted_count is the
\* number of submit clicks of the session's run, and it is target_count when
\* no stop reached that run's bot; submitted_count is written only by an
\* accepted start (to 0) and by the worker when submit_n_responses returned.
C12_CompletedCount ==
  [][\A m \in Mgrs :
       /\ status'[m] = "completed" =>
            /\ worker'[m] # 0
            /\ submitted_count'[m] = th'[worker'[m]].clicks
            /\ ~stop_requested'[worker'[m]] => submitted_count'[m] = target_count'[m]
       /\ submitted_count'[m] # submitted_count[m] =>
            \/ StartWrite(m) /\ submitted_count'[m] = 0
            \/ ReturnWrite(m)]_vars

\* C13: a start request that is answered with an error (empty URL, count
\* outside 1..1000, VERCEL, 'Bot is already running') leaves the active_bots
\* map and every manager's status, logs, counters, bot and worker as they were.
C13_RejectedStartFrame ==
  [][out'.code \in StartErrors => active_bots' = active_bots /\ mgrVars' = mgrVars]_vars

\* manager m was created and clear_session has deleted it from active_bots
\* (line 153 is the only statement that removes an entry)
Cleared(m) == m # 0 /\ m <= nMgr /\ \A s \in Sids : active_bots[s] # m

\* C14: when clear_session returns for a session the session is absent from
\* active_bots, a status or stop request that finds no session is answered
\* with an error, and a worker of a cleared session performs no further
\* submit click, wherever in its run the clear arrived.
C14_ClearStops ==
  [][/\ (out'.code = "cleared" /\ out'.sid # 0) => active_bots'[out'.sid] = 0
     /\ (reqs' # reqs /\ (cookie = 0 \/ active_bots[cookie] = 0)) =>
          /\ out'.code \notin {"status", "stop requested"}
          /\ \A k \in Handlers : hd'[k].op = "stop" => hd[k].op = "stop"
     /\ \A w \in Workers : Cleared(th[w].mgr) => th'[w].clicks = th[w].clicks]_vars

\* C15: when a worker thread has terminated, the driver it started has been
\* quit and its bot holds no driver; a browser that is still live is held by
\* a bot, so that no quit, repeated or concurrent, from clear_session or the
\* finally block, leaves a live browser behind.
C15_DriversQuit ==
  /\ \A w \in Workers : th[w].state = "dead" => drv[w] # "live" /\ driver[w] = 0
  /\ \A d \in Workers : drv[d] = "live" => \E b \in Workers : driver[b] = d
====
